---- MODULE Spec2Model ----
(***************************************************************************)
(* Model of NMController_web's worker threads:                             *)
(*   threads/managed_thread.py  ManagedThread (lifecycle controller)       *)
(*   threads/btcinfo_thread.py  BtcInfoThread (price / block reward)       *)
(*   threads/udp_thread.py      UdpThread     (UDP telemetry listener)     *)
(*                                                                         *)
(* One worker object of kind "btc" or "udp" is constructed; one caller     *)
(* (the main thread) finishes the constructor and then issues pause /      *)
(* resume / stop / restart calls.  Every threading.Thread the object ever  *)
(* starts is a process of the model with its own position in run().        *)
(* Further specifications over the same variables examine one subsystem    *)
(* each: retry_operation (RetrySpec), get_btc_price and the fetch cycle    *)
(* (PriceSpec, FetchSpec), the datagram path (DataSpec), the class-level   *)
(* constructors (ClassSpec), and two concurrent callers of get_btc_price   *)
(* (ConcSpec) and of the lifecycle methods (GateSpec).                     *)
(***************************************************************************)
EXTENDS Integers, FiniteSets, Sequences, TLC

\* ---------------------------------------------------------------- bounds
MaxThreads == 3          \* Thread objects one worker may start (1 + restarts)
MaxTime == 2             \* clock ticks observed (time.time() readings)
MaxUpdateSeconds == 2    \* largest configured update interval, in ticks
MaxRetries == 3          \* largest retries / max_retries value tried
NumSources == 3          \* entries of BTC_PRICE_API_SOURCES that are modelled
StartTime == 1000        \* time.time() when the fetcher starts, in seconds
MaxShort == 2            \* clock readings StartTime .. StartTime + MaxShort
MaxObjects == 3          \* worker objects created by the constructors
MaxCalls == 4            \* class-level calls (constructions, resets) made

VARIABLES
    kind,            \* which subclass the object is: "btc" | "udp"
    update_seconds,  \* self.update_seconds
    last_update,     \* self.last_update
    now,             \* time.time()
    stop_event,      \* self._stop_event.is_set()
    pause_event,     \* self._pause_event.is_set()
    state,           \* self._state
    thread,          \* self.thread (identity of the current Thread object)
    tpc,             \* position of every Thread object in _run_wrapper/run
    sock,            \* UdpThread.sock
    cpc,             \* position of the caller inside the call in progress
    cop,             \* the public method the caller is executing
    prior,           \* get_state() at the moment that method was called
    ret,             \* the last call that completed, and how
    first_nu,        \* result of the first needs_update() call
    rt,              \* frame of one retry_operation() call
    backoff_tracker,      \* BtcInfoThread._backoff_tracker
    last_successful_api,  \* BtcInfoThread._last_successful_api
    gp,              \* frame of one get_btc_price() call
    btc_price_source,     \* self.btc_price_source
    btc_price,            \* self.btc_price   (cents)
    block_reward,         \* self.block_reward (num / 2^exp BTC)
    block_reward_value,   \* self.block_reward_value (cents)
    cache,                \* self.cache
    cyc,             \* record of the last get_btc_block_reward_value() cycle
    hist,            \* per-source history of attempts
    nmminer_map,     \* UdpThread.nmminer_map
    inbox,           \* the datagrams the network may deliver to the socket
    rx,              \* the datagram the last recvfrom returned
    seen,            \* per identifier, the last valid record received
    reg,             \* the worker classes: objects built, cls._instance
    cc,              \* frames of two concurrent get_btc_price() calls
    lc               \* frames of two concurrent callers of pause / resume /
                     \* stop / restart

\* the state of the price / reward fetcher
fetchVars == <<backoff_tracker, last_successful_api, gp, btc_price_source,
               btc_price, block_reward, block_reward_value, cache, cyc, hist>>

\* the state of the lifecycle controller
lifeVars == <<kind, update_seconds, last_update, stop_event, pause_event,
              state, thread, tpc, sock, cpc, cop, prior, ret, first_nu>>

\* the state of the UDP listener's data path
dataVars == <<nmminer_map, inbox, rx, seen>>

\* the class-level state
clsVars == <<reg, cc, lc>>

vars == <<kind, update_seconds, last_update, now, stop_event, pause_event,
          state, thread, tpc, sock, cpc, cop, prior, ret, first_nu, rt,
          fetchVars, dataVars, clsVars>>

Threads == 1..MaxThreads

\* ThreadState (managed_thread.py lines 27-31): four members; there is no
\* INITIALIZING.
ThreadState == {"STOPPED", "RUNNING", "PAUSED", "RESTARTING"}

\* --------------------------------------------------------- ManagedThread

\* __init__, line 38: self.last_update = time.time() - update_seconds - 1
InitLastUpdateNow(t, u) == t

InitLastUpdate(t, u) == t - u - 1

\* should_stop()
ShouldStopNever == FALSE

ShouldStop == stop_event

\* is_paused()
is_paused == ~pause_event

\* needs_update(): compares only; it assigns nothing
needs_update == (now - last_update) >= update_seconds

\* _set_state(new_state): unconditional assignment under _state_lock
SetStateTerminal(new_state) == IF state = "STOPPED" THEN state ELSE new_state

SetState(new_state) == new_state

\* stop(), line 64: self._pause_event.set()
StopPauseGateKept == pause_event

StopPauseGate == TRUE

Alive(t) == tpc[t] \notin {"unborn", "created", "exited", "crashed"}

AliveThreads == {t \in Threads : Alive(t)}

\* self.thread.is_alive()
is_alive == Alive(thread)

\* A thread is inside a blocking call whose own timeout is no shorter than
\* stop_timeout (5 s): requests.get(..., timeout=10) in the fetch cycle, or
\* recvfrom on a socket with settimeout(5).
InBlockingCall(t) ==
    \/ kind = "btc" /\ tpc[t] = "update"
    \/ kind = "udp" /\ tpc[t] = "recvfrom"

\* self.thread.join(timeout=self.stop_timeout) can return: the thread is
\* dead, or the timeout expired while it was blocked.
JoinReturns == ~is_alive \/ InBlockingCall(thread)

\* ------------------------------------------------------ retry_operation
\* what one invocation of the operation does
OpOutcomes == {"ok", "UpdateFailedError", "OperationFailedError", "OtherError"}

\* the behaviour of an operation: the outcome of its 1st, 2nd, ... invocation
OpScripts == [1..(MaxRetries + 1) -> OpOutcomes]

\* retries argument: None (the empty tuple) or a number n (the tuple <<n>>)
RetriesArgs == {<<>>} \cup {<<n>> : n \in 0..MaxRetries}

\* line 115: except (UpdateFailedError, OperationFailedError)
RetryableAny(e) == e # "ok"

Retryable(e) == e \in {"UpdateFailedError", "OperationFailedError"}

\* line 111: while attempt < retries
RetryContinuesInclusive(attempt, retries) == attempt <= retries

RetryContinues(attempt, retries) == attempt < retries

\* line 108: retries = retries or self.max_retries  (None and 0 are falsy)
EffectiveRetries(arg, max_retries) ==
    IF arg = <<>> THEN max_retries
    ELSE IF arg[1] = 0 THEN max_retries ELSE arg[1]

\* no retry_operation call in progress
RetryIdle ==
    [pc |-> "idle", arg |-> <<>>, max_retries |-> 0,
     script |-> [i \in 1..(MaxRetries + 1) |-> "ok"],
     retries |-> 0, attempt |-> 0, calls |-> 0, outcome |-> "none",
     reported |-> 0]

\* ----------------------------------------------------------- BtcInfoThread
\* MAX_BACKOFF, line 103
MAX_BACKOFF == 600

\* the names of BTC_PRICE_API_SOURCES (lines 15-100), in configured order
SourceNames ==
    <<"Bitstamp", "Kraken", "Coingecko", "OKX", "Huobi", "ByBit", "MEXC",
      "Binance", "CryptoCompare", "Gemini", "Blockchain.com", "CoinPaprika">>

BTC_PRICE_API_SOURCES == SubSeq(SourceNames, 1, NumSources)

Names == {BTC_PRICE_API_SOURCES[i] : i \in 1..NumSources}

\* the instants at which the clock is read: a few seconds after the start,
\* and the same seconds one MAX_BACKOFF later
TimePoints ==
    {StartTime + e : e \in 0..MaxShort}
        \cup {StartTime + MAX_BACKOFF + e : e \in 0..MaxShort}

\* price texts a source can answer with, in thousandths of a dollar
Payloads == {10005, 20016}

\* block heights blockchain.info can answer with
Heights == {0, 209999, 210000, 840000, 2100000}

\* dictionaries are functions on the set of their keys
EmptyDict == [k \in {} |-> 0]

\* d[k] = v
Put(d, k, v) == [x \in (DOMAIN d) \cup {k} |-> IF x = k THEN v ELSE d[x]]

\* del d[k]
Del(d, k) == [x \in (DOMAIN d) \ {k} |-> d[x]]

\* d.get(k, default)
Get(d, k, default) == IF k \in DOMAIN d THEN d[k] ELSE default

Min(a, b) == IF a <= b THEN a ELSE b

RECURSIVE Pow2(_)
Pow2(n) == IF n = 0 THEN 1 ELSE 2 * Pow2(n - 1)

\* round(n / d) to the nearest integer, ties to even, as Python's round()
RoundHalfEven(n, d) ==
    LET q == n \div d
        r == n % d
    IN IF 2 * r < d THEN q
       ELSE IF 2 * r > d THEN q + 1
       ELSE IF q % 2 = 0 THEN q ELSE q + 1

\* the parser lambdas, lines 21-98: round(float(text), 2), here from
\* thousandths of a dollar to cents
ParsePriceTruncated(raw) == raw \div 10

ParsePrice(raw) == RoundHalfEven(raw, 10)

\* backoff_time_calc, lines 104-107; t is time.time()
backoff_time_calc(tracker, name, t) ==
    Min(t + (Get(tracker, name, 1) * 2), t + MAX_BACKOFF)

\* get_btc_price line 245: sorted(..., key=name != _last_successful_api);
\* the sort is stable
SortedSources(last) ==
    SelectSeq(BTC_PRICE_API_SOURCES, LAMBDA n : n = last)
        \o SelectSeq(BTC_PRICE_API_SOURCES, LAMBDA n : n # last)

\* get_btc_price lines 248-251: the source is skipped
InBackoffInclusive(tracker, name, t) ==
    name \in DOMAIN tracker /\ t <= tracker[name]

InBackoff(tracker, name, t) ==
    name \in DOMAIN tracker /\ t < tracker[name]

\* get_btc_price lines 260-261: the entry of a source that answered
TrackerAfterSuccessKept(tracker, name) == tracker

TrackerAfterSuccess(tracker, name) == Del(tracker, name)

\* get_btc_block_reward_value line 190
HalvingsCeil(h) == (h + 209999) \div 210000

Halvings(h) == h \div 210000

\* get_btc_block_reward_value lines 191-192: 50 / 2^halvings, kept exact
BlockReward(h) == [num |-> 50, exp |-> Halvings(h)]

\* get_btc_block_reward_value line 195: round(reward * price, 2), in cents
RewardValue(reward, price) == RoundHalfEven(reward.num * price, Pow2(reward.exp))

\* BtcInfoThread.__init__ lines 155-164
ZeroSnapshot ==
    [btc_price_source |-> "", btc_price |-> 0,
     block_reward |-> [num |-> 0, exp |-> 0], block_reward_value |-> 0]

\* the exposed tuple (btc_price_source, btc_price, block_reward,
\* block_reward_value)
Exposed ==
    [btc_price_source |-> btc_price_source, btc_price |-> btc_price,
     block_reward |-> block_reward, block_reward_value |-> block_reward_value]

\* restore_from_cache, lines 216-222: the exposed tuple it leaves
restore_from_cache_partial(c, cur) ==
    [cur EXCEPT !.block_reward = c.block_reward,
                !.block_reward_value = c.block_reward_value]

restore_from_cache(c, cur) ==
    [btc_price_source |-> c.btc_price_source, btc_price |-> c.btc_price,
     block_reward |-> c.block_reward,
     block_reward_value |-> c.block_reward_value]

\* no get_btc_price call in progress
GpIdle ==
    [pc |-> "idle", sources |-> <<>>, i |-> 0, result |-> <<"", 0>>,
     log |-> <<>>, requested |-> {}, tracker0 |-> EmptyDict, t0 |-> 0,
     tcheck |-> 0]

CycIdle ==
    [outcome |-> "none", cache0 |-> ZeroSnapshot, fetched |-> <<"", 0>>,
     height |-> 0]

HistInit ==
    [last_ok |-> "None",
     nfail |-> [n \in Names |-> 0],
     last_attempt |-> [n \in Names |-> "none"]]

\* class attributes at lines 119-120 and the instance after __init__
FetchConstructed ==
    /\ backoff_tracker = EmptyDict
    /\ last_successful_api = "None"
    /\ gp = GpIdle
    /\ btc_price_source = ""
    /\ btc_price = 0
    /\ block_reward = [num |-> 0, exp |-> 0]
    /\ block_reward_value = 0
    /\ cache = ZeroSnapshot
    /\ cyc = CycIdle
    /\ hist = HistInit

\* ------------------------------------------------------------ UdpThread
\* identifiers of miners ("ip" values) that are usable as map keys
MinerIps == {"X", "Y"}

\* time.strftime("%Y-%m-%d %H:%M:%S", time.localtime()), line 87: the local
\* clock reading as text, to the second
strftime(t) == <<"local", t>>

\* what a datagram holds: bytes that are not UTF-8, text that is not JSON
\* (the empty datagram included), JSON that is not an object, or a JSON
\* object, given as the function from its keys to its values.  The "ip" of
\* an object may be missing, falsy ("" stands for "", null, 0, false, []),
\* a non-empty array ("LIST", not hashable), or an identifier.
NotObject(k) == [kind |-> k, obj |-> EmptyDict]

Object(o) == [kind |-> "object", obj |-> o]

EmptyDatagram == NotObject("not_json")

NoDatagram == NotObject("none")

Datagrams ==
    { NotObject("bad_utf8"), EmptyDatagram, NotObject("non_object"),
      Object([HashRate |-> 1]),
      Object([ip |-> "", HashRate |-> 1]),
      Object([ip |-> "LIST", HashRate |-> 1]),
      Object([ip |-> "X", HashRate |-> 1]),
      Object([ip |-> "X", Share |-> 2]),
      Object([ip |-> "X", HashRate |-> 2, UpdateTime |-> <<"sender", 0>>]),
      Object([ip |-> "Y", HashRate |-> 1]) }

\* the traffic of the lifecycle specification: one miner and noise
FewDatagrams == {EmptyDatagram, Object([ip |-> "X", HashRate |-> 1])}

\* process_data lines 81-85: ip = json_data.get("ip"); if not ip: return
HasIpAlways(o) == TRUE

HasIp(o) == "ip" \in DOMAIN o /\ o["ip"] # ""

\* process_data lines 87-88: the record that is stored under the identifier
StoredMerged(old, o, t) ==
    [f \in DOMAIN old \cup DOMAIN o \cup {"UpdateTime"} |->
        IF f = "UpdateTime" THEN strftime(t)
        ELSE IF f \in DOMAIN o THEN o[f] ELSE old[f]]

Stored(old, o, t) == Put(o, "UpdateTime", strftime(t))

\* process_data(data), lines 73-96: the map it leaves.  Every exception is
\* caught inside: UnicodeDecodeError and AttributeError (.get on a value
\* that is not an object) at line 95, JSONDecodeError at line 91, TypeError
\* (unhashable key, line 88) at line 95.
process_data(map, d, t) ==
    IF d.kind # "object" THEN map
    ELSE IF ~HasIp(d.obj) THEN map
    ELSE LET ip == Get(d.obj, "ip", "") IN
         IF ip = "LIST" THEN map
         ELSE Put(map, ip, Stored(Get(map, ip, EmptyDict), d.obj, t))

\* the record of valid datagrams received, per identifier
NoneSeen == [i \in MinerIps |-> <<>>]

IsValid(d) == d.kind = "object" /\ Get(d.obj, "ip", "") \in MinerIps

DataConstructed ==
    /\ nmminer_map = EmptyDict
    /\ rx = NoDatagram
    /\ seen = NoneSeen

\* ------------------------------------------- the classes and their objects
\* UDP ports a caller binds listeners to
Ports == {12345, 12346}

\* an object as object.__new__ leaves it: no instance attribute yet.  cur is
\* the Thread object in self.thread; orphans counts the live threads that
\* earlier runs of ManagedThread.__init__ started on the same object.
NewObject(cls) ==
    [cls |-> cls, initialized |-> FALSE, update_seconds |-> 0,
     stop_event |-> FALSE, state |-> "STOPPED", cur |-> "none",
     orphans |-> 0, started |-> 0, inits |-> 0, sock |-> "none", port |-> 0]

\* ManagedThread.__init__, lines 38-50, run on the object: fresh events, the
\* interval, a new Thread in self.thread, started, state RUNNING
ManagedInit(o, u) ==
    [o EXCEPT !.update_seconds = u,
              !.stop_event = FALSE,
              !.state = "RUNNING",
              !.orphans = @ + (IF o.cur = "alive" THEN 1 ELSE 0),
              !.cur = "alive",
              !.started = @ + 1,
              !.inits = @ + 1]

\* BtcInfoThread.__init__, lines 146-153: nothing if _initialized, else
\* ManagedThread.__init__ and the raise at line 153 (see BtcInitState);
\* line 165, _initialized = True, is not reached
BtcInit(o, u) == IF o.initialized THEN o ELSE ManagedInit(o, u)

\* ManagedThread.stop, lines 61-68, on the object: joined says whether the
\* thread ended within stop_timeout
ManagedStop(o, joined) ==
    [o EXCEPT !.stop_event = TRUE,
              !.state = "STOPPED",
              !.cur = IF o.cur = "alive" /\ joined THEN "dead" ELSE o.cur]

NoCall == [n |-> 0, op |-> "none", cls |-> "none", obj |-> 0, raised |-> FALSE]

\* no class-level activity
RegIdle == [objs |-> <<>>, instance |-> 0, last |-> NoCall]

\* the two callers of get_btc_price: the worker's thread and another thread
Callers == {1, 2}

\* a caller that is not inside get_btc_price
CallIdle ==
    [pc |-> "idle", sources |-> <<>>, i |-> 0, resp |-> "none",
     result |-> <<"", 0>>]

CcIdle == [c \in Callers |-> CallIdle]

\* a caller that is not inside a lifecycle method; jt is the Thread object
\* a join in progress was called on
LcIdle == [c \in Callers |-> [op |-> "none", pc |-> "idle", jt |-> 0]]

\* ------------------------------------------------------------------ Init
\* The state at the end of ManagedThread.__init__ (line 50): the thread has
\* been started and the state set to RUNNING; the subclass constructor has
\* still to run its own lines.
Init ==
    /\ kind \in {"btc", "udp"}
    /\ update_seconds \in 0..MaxUpdateSeconds
    /\ now = 0
    /\ last_update = InitLastUpdate(now, update_seconds)
    /\ stop_event = FALSE
    /\ pause_event = TRUE
    /\ state = "RUNNING"
    /\ thread = 1
    /\ tpc = [t \in Threads |-> IF t = 1 THEN "loop" ELSE "unborn"]
    /\ sock = "none"
    /\ cpc = IF kind = "btc" THEN "btc_state" ELSE "udp_sock"
    /\ cop = "init"
    /\ prior = "STOPPED"
    /\ ret = "none"
    /\ first_nu = "none"
    /\ rt = RetryIdle
    /\ FetchConstructed
    /\ DataConstructed
    /\ inbox = FewDatagrams
    /\ reg = RegIdle
    /\ cc = CcIdle
    /\ lc = LcIdle

\* ------------------------------------------------------------- the clock
Tick ==
    /\ now < MaxTime
    /\ now' = now + 1
    /\ UNCHANGED <<rt, fetchVars, dataVars, clsVars>>
    /\ UNCHANGED <<kind, update_seconds, last_update, stop_event, pause_event,
                   state, thread, tpc, sock, cpc, cop, prior, ret, first_nu>>

\* ---------------------------------------------------------- constructors
\* BtcInfoThread.__init__ line 153: self._set_state(ThreadState.INITIALIZING).
\* The enum has no such member, so evaluating the argument raises
\* AttributeError: the constructor raises with the thread started and the
\* state RUNNING (ManagedThread.__init__ lines 49-50), and lines 155-166 do
\* not run.  The instance stays reachable as BtcInfoThread._instance (set in
\* __new__, line 126), which is how reset_instance() calls stop() on it.
BtcInitState ==
    /\ cpc = "btc_state"
    /\ cpc' = "idle"
    /\ ret' = "init_raised"
    /\ UNCHANGED <<rt, fetchVars, dataVars, clsVars>>
    /\ UNCHANGED <<kind, update_seconds, last_update, now, stop_event,
                   pause_event, state, thread, tpc, sock, cop, prior,
                   first_nu>>

\* UdpThread.__init__ lines 32-43: socket(), settimeout, bind.  bind either
\* succeeds or raises; on a raise the constructor re-raises and no caller
\* ever holds the object.
UdpInitSock ==
    /\ cpc = "udp_sock"
    /\ sock' = "open"
    /\ \E bound \in BOOLEAN :
          IF bound THEN cpc' = "idle" /\ ret' = "init"
                   ELSE cpc' = "ctor_failed" /\ ret' = "init_raised"
    /\ UNCHANGED <<rt, fetchVars, dataVars, clsVars>>
    /\ UNCHANGED <<kind, update_seconds, last_update, now, stop_event,
                   pause_event, state, thread, tpc, cop, prior, first_nu>>

\* ------------------------------------------------------- pause / resume
\* pause() line 72
CallPause ==
    /\ cpc = "idle"
    /\ cop' = "pause"
    /\ prior' = state
    /\ pause_event' = FALSE
    /\ cpc' = "pause_state"
    /\ UNCHANGED <<rt, fetchVars, dataVars, clsVars>>
    /\ UNCHANGED <<kind, update_seconds, last_update, now, stop_event, state,
                   thread, tpc, sock, ret, first_nu>>

\* pause() line 73
PauseSetState ==
    /\ cpc = "pause_state"
    /\ state' = SetState("PAUSED")
    /\ cpc' = "idle"
    /\ ret' = "pause"
    /\ UNCHANGED <<rt, fetchVars, dataVars, clsVars>>
    /\ UNCHANGED <<kind, update_seconds, last_update, now, stop_event,
                   pause_event, thread, tpc, sock, cop, prior, first_nu>>

\* resume() line 77
CallResume ==
    /\ cpc = "idle"
    /\ cop' = "resume"
    /\ prior' = state
    /\ pause_event' = TRUE
    /\ cpc' = "resume_state"
    /\ UNCHANGED <<rt, fetchVars, dataVars, clsVars>>
    /\ UNCHANGED <<kind, update_seconds, last_update, now, stop_event, state,
                   thread, tpc, sock, ret, first_nu>>

\* resume() line 78
ResumeSetState ==
    /\ cpc = "resume_state"
    /\ state' = SetState("RUNNING")
    /\ cpc' = "idle"
    /\ ret' = "resume"
    /\ UNCHANGED <<rt, fetchVars, dataVars, clsVars>>
    /\ UNCHANGED <<kind, update_seconds, last_update, now, stop_event,
                   pause_event, thread, tpc, sock, cop, prior, first_nu>>

\* ------------------------------------------------------- stop / restart
\* stop() line 63, entered directly (op = "stop") or from restart() line 82.
\* A restart is only begun while a Thread identity is left for it.
CallStop(op) ==
    /\ cpc = "idle"
    /\ op = "restart" => thread < MaxThreads
    /\ cop' = op
    /\ prior' = state
    /\ stop_event' = TRUE
    /\ cpc' = "stop_pause"
    /\ UNCHANGED <<rt, fetchVars, dataVars, clsVars>>
    /\ UNCHANGED <<kind, update_seconds, last_update, now, pause_event, state,
                   thread, tpc, sock, ret, first_nu>>

\* stop() line 64
StopPause ==
    /\ cpc = "stop_pause"
    /\ pause_event' = StopPauseGate
    /\ cpc' = "stop_join"
    /\ UNCHANGED <<rt, fetchVars, dataVars, clsVars>>
    /\ UNCHANGED <<kind, update_seconds, last_update, now, stop_event, state,
                   thread, tpc, sock, cop, prior, ret, first_nu>>

\* stop() lines 65-67: join with timeout; is_alive() only selects a log line
StopJoin ==
    /\ cpc = "stop_join"
    /\ JoinReturns
    /\ cpc' = "stop_state"
    /\ UNCHANGED <<rt, fetchVars, dataVars, clsVars>>
    /\ UNCHANGED <<kind, update_seconds, last_update, now, stop_event,
                   pause_event, state, thread, tpc, sock, cop, prior, ret,
                   first_nu>>

\* stop() line 68.  ManagedThread.stop returns here; for a UdpThread the
\* call is UdpThread.stop, which goes on to release the socket.
StopSetState ==
    /\ cpc = "stop_state"
    /\ state' = SetState("STOPPED")
    /\ IF kind = "udp"
         THEN cpc' = "udp_release" /\ ret' = ret
         ELSE IF cop = "stop"
                THEN cpc' = "idle" /\ ret' = "stop"
                ELSE cpc' = "restart_join" /\ ret' = ret
    /\ UNCHANGED <<rt, fetchVars, dataVars, clsVars>>
    /\ UNCHANGED <<kind, update_seconds, last_update, now, stop_event,
                   pause_event, thread, tpc, sock, cop, prior, first_nu>>

\* UdpThread.stop lines 101-102: if self.sock: self.sock.shutdown(SHUT_RDWR).
\* shutdown on an unconnected datagram socket succeeds on some platforms and
\* raises OSError(ENOTCONN) on others (Linux); the raise leaves stop(), and a
\* restart() that called it, through the exception.
UdpStopShutdown ==
    /\ cpc = "udp_release"
    /\ IF sock = "none"
         THEN /\ sock' = sock
              /\ IF cop = "stop"
                   THEN cpc' = "idle" /\ ret' = "stop"
                   ELSE cpc' = "restart_join" /\ ret' = ret
         ELSE \E ok \in BOOLEAN :
                 IF ok THEN sock' = "shut" /\ cpc' = "udp_close" /\ ret' = ret
                       ELSE /\ sock' = sock
                            /\ cpc' = "idle"
                            /\ ret' = IF cop = "stop" THEN "stop_raised"
                                                      ELSE "restart_raised"
    /\ UNCHANGED <<rt, fetchVars, dataVars, clsVars>>
    /\ UNCHANGED <<kind, update_seconds, last_update, now, stop_event,
                   pause_event, state, thread, tpc, cop, prior, first_nu>>

\* UdpThread.stop line 103
UdpStopClose ==
    /\ cpc = "udp_close"
    /\ sock' = "closed"
    /\ cpc' = "udp_none"
    /\ UNCHANGED <<rt, fetchVars, dataVars, clsVars>>
    /\ UNCHANGED <<kind, update_seconds, last_update, now, stop_event,
                   pause_event, state, thread, tpc, cop, prior, ret, first_nu>>

\* UdpThread.stop line 104
UdpStopNone ==
    /\ cpc = "udp_none"
    /\ sock' = "none"
    /\ IF cop = "stop"
         THEN cpc' = "idle" /\ ret' = "stop"
         ELSE cpc' = "restart_join" /\ ret' = ret
    /\ UNCHANGED <<rt, fetchVars, dataVars, clsVars>>
    /\ UNCHANGED <<kind, update_seconds, last_update, now, stop_event,
                   pause_event, state, thread, tpc, cop, prior, first_nu>>

\* restart() lines 83-85: a second join with timeout if still alive
RestartJoin ==
    /\ cpc = "restart_join"
    /\ JoinReturns
    /\ cpc' = "restart_clear"
    /\ UNCHANGED <<rt, fetchVars, dataVars, clsVars>>
    /\ UNCHANGED <<kind, update_seconds, last_update, now, stop_event,
                   pause_event, state, thread, tpc, sock, cop, prior, ret,
                   first_nu>>

\* restart() line 86: self._stop_event.clear()
RestartStopEventKept == stop_event

RestartStopEvent == FALSE

\* restart() line 86
RestartClear ==
    /\ cpc = "restart_clear"
    /\ stop_event' = RestartStopEvent
    /\ cpc' = "restart_state"
    /\ UNCHANGED <<rt, fetchVars, dataVars, clsVars>>
    /\ UNCHANGED <<kind, update_seconds, last_update, now, pause_event, state,
                   thread, tpc, sock, cop, prior, ret, first_nu>>

\* restart() line 87
RestartSetState ==
    /\ cpc = "restart_state"
    /\ state' = SetState("RESTARTING")
    /\ cpc' = "restart_spawn"
    /\ UNCHANGED <<rt, fetchVars, dataVars, clsVars>>
    /\ UNCHANGED <<kind, update_seconds, last_update, now, stop_event,
                   pause_event, thread, tpc, sock, cop, prior, ret, first_nu>>

\* restart() lines 88-89: a new Thread object replaces self.thread and starts
RestartSpawn ==
    /\ cpc = "restart_spawn"
    /\ thread' = thread + 1
    /\ tpc' = [tpc EXCEPT ![thread + 1] = "loop"]
    /\ cpc' = "restart_running"
    /\ UNCHANGED <<rt, fetchVars, dataVars, clsVars>>
    /\ UNCHANGED <<kind, update_seconds, last_update, now, stop_event,
                   pause_event, state, sock, cop, prior, ret, first_nu>>

\* restart() line 90
RestartRunning ==
    /\ cpc = "restart_running"
    /\ state' = SetState("RUNNING")
    /\ cpc' = "idle"
    /\ ret' = "restart"
    /\ UNCHANGED <<rt, fetchVars, dataVars, clsVars>>
    /\ UNCHANGED <<kind, update_seconds, last_update, now, stop_event,
                   pause_event, thread, tpc, sock, cop, prior, first_nu>>

\* ------------------------------------------------------ the run() loops
\* BtcInfoThread.run lines 171-176 and UdpThread.run lines 53-57: the loop
\* head.  A thread that was sleeping (sleep_for(1) / time.sleep(0.1)) comes
\* back to the head; at the head the loop ends when should_stop(), else
\* needs_update() selects the update routine or the sleep.
RunLoop(t) ==
    /\ tpc[t] \in {"loop", "sleep"}
    /\ IF tpc[t] = "sleep"
         THEN tpc' = [tpc EXCEPT ![t] = "loop"] /\ first_nu' = first_nu
         ELSE IF ShouldStop
           THEN tpc' = [tpc EXCEPT ![t] = "exited"] /\ first_nu' = first_nu
           ELSE /\ tpc' = [tpc EXCEPT ![t] =
                              IF needs_update THEN "update" ELSE "sleep"]
                /\ first_nu' = IF first_nu = "none"
                                 THEN (IF needs_update THEN "T" ELSE "F")
                                 ELSE first_nu
    /\ UNCHANGED <<rt, fetchVars, dataVars, clsVars>>
    /\ UNCHANGED <<kind, update_seconds, last_update, now, stop_event,
                   pause_event, state, thread, sock, cpc, cop, prior, ret>>

\* BtcInfoThread.get_btc_block_reward_value, lines 178-214, on the instance
\* the constructor left at line 153.  Whether the cycle succeeds (lines
\* 198-201 write self.cache) or fails (restore_from_cache reads it), it
\* touches self.cache, an attribute that lines 159-164 never created: the
\* AttributeError is raised again inside the except clause, leaves run() and
\* ends the thread in _run_wrapper.
BtcCycle(t) ==
    /\ kind = "btc"
    /\ tpc[t] = "update"
    /\ tpc' = [tpc EXCEPT ![t] = "crashed"]
    /\ UNCHANGED <<rt, fetchVars, dataVars, clsVars>>
    /\ UNCHANGED <<kind, update_seconds, last_update, now, stop_event,
                   pause_event, state, thread, sock, cpc, cop, prior, ret,
                   first_nu>>

\* UdpThread.receive_data lines 61-63: if self.sock is None: return
UdpCheckSock(t) ==
    /\ kind = "udp"
    /\ tpc[t] = "update"
    /\ tpc' = [tpc EXCEPT ![t] = IF sock = "none" THEN "loop" ELSE "select"]
    /\ UNCHANGED <<rt, fetchVars, dataVars, clsVars>>
    /\ UNCHANGED <<kind, update_seconds, last_update, now, stop_event,
                   pause_event, state, thread, sock, cpc, cop, prior, ret,
                   first_nu>>

\* UdpThread.receive_data lines 66-71: select.select([self.sock], ...).
\* self.sock is read again: None raises TypeError, a closed socket raises
\* ValueError; a socket that was shut down is readable; an open one is ready
\* or not.
UdpSelect(t) ==
    /\ kind = "udp"
    /\ tpc[t] = "select"
    /\ \E ready \in BOOLEAN :
          tpc' = [tpc EXCEPT ![t] =
                     CASE sock \in {"none", "closed"} -> "crashed"
                       [] sock = "shut" -> "recvfrom"
                       [] OTHER -> IF ready THEN "recvfrom" ELSE "loop"]
    /\ UNCHANGED <<rt, fetchVars, dataVars, clsVars>>
    /\ UNCHANGED <<kind, update_seconds, last_update, now, stop_event,
                   pause_event, state, thread, sock, cpc, cop, prior, ret,
                   first_nu>>

\* UdpThread.receive_data lines 68-69: self.sock.recvfrom(1024) and
\* process_data.  recvfrom returns a datagram (the empty one on a socket
\* that was shut down), or raises (socket.timeout after 5 s, OSError, or
\* AttributeError / bad descriptor once the socket is None / closed);
\* process_data catches everything it raises itself.
UdpRecvfrom(t) ==
    /\ kind = "udp"
    /\ tpc[t] = "recvfrom"
    /\ \E d \in inbox \cup {NoDatagram} :
          LET got == CASE sock \in {"none", "closed"} -> NoDatagram
                       [] sock = "shut" -> EmptyDatagram
                       [] OTHER -> d
          IN
          /\ tpc' = [tpc EXCEPT ![t] =
                        IF got = NoDatagram THEN "crashed" ELSE "loop"]
          /\ rx' = got
          /\ nmminer_map' = IF got = NoDatagram THEN nmminer_map
                            ELSE process_data(nmminer_map, got, now)
          /\ seen' = IF IsValid(got)
                       THEN [seen EXCEPT ![got.obj["ip"]] = <<got.obj, now>>]
                       ELSE seen
    /\ UNCHANGED <<rt, fetchVars, clsVars, inbox>>
    /\ UNCHANGED <<kind, update_seconds, last_update, now, stop_event,
                   pause_event, state, thread, sock, cpc, cop, prior, ret,
                   first_nu>>

ThreadStep(t) ==
    \/ RunLoop(t)
    \/ BtcCycle(t)
    \/ UdpCheckSock(t)
    \/ UdpSelect(t)
    \/ UdpRecvfrom(t)

CallerStep ==
    \/ BtcInitState \/ UdpInitSock
    \/ CallPause \/ PauseSetState \/ CallResume \/ ResumeSetState
    \/ CallStop("stop") \/ CallStop("restart")
    \/ StopPause \/ StopJoin \/ StopSetState
    \/ UdpStopShutdown \/ UdpStopClose \/ UdpStopNone
    \/ RestartJoin \/ RestartClear \/ RestartSetState
    \/ RestartSpawn \/ RestartRunning

Next ==
    \/ Tick
    \/ CallerStep
    \/ \E t \in Threads : ThreadStep(t)

Spec == Init /\ [][Next]_vars

\* Every started thread is scheduled: the interpreter runs each live thread
\* again and again, and every blocking call in run() has a timeout.
LiveSpec == Spec /\ \A t \in Threads : WF_vars(ThreadStep(t))

TypeOK ==
    /\ kind \in {"btc", "udp"}
    /\ update_seconds \in 0..MaxUpdateSeconds
    /\ now \in 0..MaxTime
    /\ stop_event \in BOOLEAN
    /\ pause_event \in BOOLEAN
    /\ state \in ThreadState
    /\ thread \in Threads
    /\ sock \in {"none", "open", "shut", "closed"}

\* ------------------------------------------------ UdpThread (data path)
\* A constructed UdpThread (socket bound, map empty) whose thread runs
\* run(); the network delivers any of Datagrams; nobody calls stop().
DataInit ==
    /\ kind = "udp"
    /\ update_seconds = 0
    /\ now = 0
    /\ last_update = InitLastUpdate(now, update_seconds)
    /\ stop_event = FALSE
    /\ pause_event = TRUE
    /\ state = "RUNNING"
    /\ thread = 1
    /\ tpc = [t \in Threads |-> IF t = 1 THEN "loop" ELSE "unborn"]
    /\ sock = "open"
    /\ cpc = "idle"
    /\ cop = "init"
    /\ prior = "STOPPED"
    /\ ret = "init"
    /\ first_nu = "none"
    /\ rt = RetryIdle
    /\ FetchConstructed
    /\ DataConstructed
    /\ inbox = Datagrams
    /\ reg = RegIdle
    /\ cc = CcIdle
    /\ lc = LcIdle

DataNext ==
    \/ Tick
    \/ \E t \in Threads :
          RunLoop(t) \/ UdpCheckSock(t) \/ UdpSelect(t) \/ UdpRecvfrom(t)

DataSpec == DataInit /\ [][DataNext]_vars


\* ------------------------------------- constructions and reset_instance
\* One caller constructs BtcInfoThread and UdpThread objects and calls
\* reset_instance(); the threads the constructors start run beside it.
ClassInit ==
    /\ kind = "btc"
    /\ update_seconds = 0
    /\ now = 0
    /\ last_update = InitLastUpdate(now, update_seconds)
    /\ stop_event = FALSE
    /\ pause_event = TRUE
    /\ state = "STOPPED"
    /\ thread = 1
    /\ tpc = [t \in Threads |-> "unborn"]
    /\ sock = "none"
    /\ cpc = "idle"
    /\ cop = "none"
    /\ prior = "STOPPED"
    /\ ret = "none"
    /\ first_nu = "none"
    /\ rt = RetryIdle
    /\ FetchConstructed
    /\ DataConstructed
    /\ inbox = {}
    /\ reg = RegIdle
    /\ cc = CcIdle
    /\ lc = LcIdle

\* BtcInfoThread(name, update_seconds=u): __new__ (lines 122-128) creates the
\* instance only if cls._instance is None, then __init__ runs on it
BtcConstruct ==
    /\ reg.last.n < MaxCalls
    /\ reg.instance = 0 => Len(reg.objs) < MaxObjects
    /\ \E u \in 0..MaxUpdateSeconds :
          LET objs1 == IF reg.instance = 0
                         THEN Append(reg.objs, NewObject("btc"))
                         ELSE reg.objs
              id == IF reg.instance = 0 THEN Len(objs1) ELSE reg.instance
          IN reg' = [objs |-> [objs1 EXCEPT ![id] = BtcInit(objs1[id], u)],
                     instance |-> id,
                     last |-> [n |-> reg.last.n + 1, op |-> "construct",
                               cls |-> "btc", obj |-> id,
                               raised |-> ~objs1[id].initialized]]
    /\ UNCHANGED <<lifeVars, dataVars, now, rt, fetchVars, cc, lc>>

\* BtcInfoThread.reset_instance(), lines 130-136: stop() on the instance,
\* whose join may time out while the thread is inside a request, then
\* cls._instance = None
BtcResetInstance ==
    /\ reg.last.n < MaxCalls
    /\ IF reg.instance = 0
         THEN reg' = [reg EXCEPT !.last = [n |-> reg.last.n + 1,
                                          op |-> "reset", cls |-> "btc",
                                          obj |-> 0, raised |-> FALSE]]
         ELSE \E joined \in BOOLEAN :
                 reg' = [objs |-> [reg.objs EXCEPT ![reg.instance] =
                                      ManagedStop(@, joined)],
                         instance |-> 0,
                         last |-> [n |-> reg.last.n + 1, op |-> "reset",
                                   cls |-> "btc", obj |-> reg.instance,
                                   raised |-> FALSE]]
    /\ UNCHANGED <<lifeVars, dataVars, now, rt, fetchVars, cc, lc>>

\* UdpThread(port=p, update_seconds=u), lines 21-43: the class has no
\* __new__, so every construction is a new object; ManagedThread.__init__
\* starts its thread, then bind raises if the port is taken
UdpConstruct ==
    /\ reg.last.n < MaxCalls
    /\ Len(reg.objs) < MaxObjects
    /\ \E u \in 0..MaxUpdateSeconds, p \in Ports :
          LET free == \A i \in 1..Len(reg.objs) :
                         ~(reg.objs[i].sock = "bound" /\ reg.objs[i].port = p)
              o == [ManagedInit(NewObject("udp"), u) EXCEPT
                       !.sock = IF free THEN "bound" ELSE "unbound",
                       !.port = p]
          IN reg' = [reg EXCEPT !.objs = Append(@, o),
                                !.last = [n |-> reg.last.n + 1,
                                          op |-> "construct", cls |-> "udp",
                                          obj |-> Len(reg.objs) + 1,
                                          raised |-> ~free]]
    /\ UNCHANGED <<lifeVars, dataVars, now, rt, fetchVars, cc, lc>>

\* UdpThread.reset_instance(): neither UdpThread nor ManagedThread defines
\* it; the attribute lookup raises AttributeError
UdpResetInstance ==
    /\ reg.last.n < MaxCalls
    /\ reg' = [reg EXCEPT !.last = [n |-> reg.last.n + 1, op |-> "reset",
                                    cls |-> "udp", obj |-> 0,
                                    raised |-> TRUE]]
    /\ UNCHANGED <<lifeVars, dataVars, now, rt, fetchVars, cc, lc>>

\* a thread of an object ends: it saw should_stop(), or an exception left
\* run() (for a BtcInfoThread, at the latest when its first cycle reaches
\* self.cache)
ObjectThreadEnds ==
    /\ \E i \in 1..Len(reg.objs) :
          \/ /\ reg.objs[i].cur = "alive"
             /\ reg' = [reg EXCEPT !.objs[i].cur = "dead"]
          \/ /\ reg.objs[i].orphans > 0
             /\ reg' = [reg EXCEPT !.objs[i].orphans = @ - 1]
    /\ UNCHANGED <<lifeVars, dataVars, now, rt, fetchVars, cc, lc>>

ClassNext ==
    \/ BtcConstruct \/ BtcResetInstance
    \/ UdpConstruct \/ UdpResetInstance
    \/ ObjectThreadEnds

ClassSpec == ClassInit /\ [][ClassNext]_vars

\* ------------------------------------ get_btc_price, two calls at once
\* get_btc_price statement by statement, run by two threads on the shared
\* class attributes _backoff_tracker and _last_successful_api.  Each dict
\* operation is one step (the interpreter makes it atomic); nothing orders
\* the steps of the two calls.
ConcInit ==
    /\ kind = "btc"
    /\ update_seconds = 0
    /\ now = StartTime
    /\ last_update = InitLastUpdate(now, update_seconds)
    /\ stop_event = FALSE
    /\ pause_event = TRUE
    /\ state = "RUNNING"
    /\ thread = 1
    /\ tpc = [t \in Threads |-> IF t = 1 THEN "update" ELSE "unborn"]
    /\ sock = "none"
    /\ cpc = "idle"
    /\ cop = "init"
    /\ prior = "STOPPED"
    /\ ret = "init_raised"
    /\ first_nu = "T"
    /\ rt = RetryIdle
    /\ FetchConstructed
    /\ DataConstructed
    /\ inbox = {}
    /\ reg = RegIdle
    /\ cc = CcIdle
    /\ lc = LcIdle

\* the source the caller is at
CcName(c) == cc[c].sources[cc[c].i]

\* a second passes while nobody is inside get_btc_price
CcAdvance ==
    /\ \A c \in Callers : cc[c].pc = "idle"
    /\ now < StartTime + MaxShort
    /\ now' = now + 1
    /\ UNCHANGED <<lifeVars, dataVars, rt, fetchVars, clsVars>>

\* line 245: sources = sorted(...)
CcCall(c) ==
    /\ cc[c].pc = "idle"
    /\ cc' = [cc EXCEPT ![c] =
                 [CallIdle EXCEPT !.pc = "in_check",
                                  !.sources = SortedSources(last_successful_api),
                                  !.i = 1]]
    /\ UNCHANGED <<lifeVars, dataVars, now, rt, fetchVars, reg, lc>>

\* lines 246-248: the next source, if source["name"] in _backoff_tracker;
\* line 275 when the sources are exhausted
CcInCheck(c) ==
    /\ cc[c].pc = "in_check"
    /\ cc' = [cc EXCEPT ![c].pc =
                 IF cc[c].i > Len(cc[c].sources) THEN "returned"
                 ELSE IF CcName(c) \in DOMAIN backoff_tracker
                        THEN "read_entry" ELSE "request"]
    /\ UNCHANGED <<lifeVars, dataVars, now, rt, fetchVars, reg, lc>>

\* lines 249-251: backoff_time = _backoff_tracker[name], outside the try
\* (KeyError leaves get_btc_price); if time.time() < backoff_time: continue
CcReadEntry(c) ==
    /\ cc[c].pc = "read_entry"
    /\ cc' = [cc EXCEPT ![c] =
                 IF CcName(c) \notin DOMAIN backoff_tracker
                   THEN [@ EXCEPT !.pc = "raised"]
                 ELSE IF InBackoff(backoff_tracker, CcName(c), now)
                   THEN [@ EXCEPT !.pc = "in_check", !.i = @ + 1]
                 ELSE [@ EXCEPT !.pc = "request"]]
    /\ UNCHANGED <<lifeVars, dataVars, now, rt, fetchVars, reg, lc>>

\* lines 253-255: the request fails, or answers JSON that the parser will
\* reject ("bad") or accept ("good")
CcRequest(c) ==
    /\ cc[c].pc = "request"
    /\ \E resp \in {"fail", "bad", "good"} :
          cc' = [cc EXCEPT ![c].resp = resp,
                           ![c].pc = IF resp = "fail" THEN "except"
                                     ELSE "set_last"]
    /\ UNCHANGED <<lifeVars, dataVars, now, rt, fetchVars, reg, lc>>

\* line 259
CcSetLast(c) ==
    /\ cc[c].pc = "set_last"
    /\ last_successful_api' = CcName(c)
    /\ cc' = [cc EXCEPT ![c].pc = "del_check"]
    /\ UNCHANGED <<lifeVars, dataVars, now, rt, reg, lc, backoff_tracker, gp,
                   btc_price_source, btc_price, block_reward,
                   block_reward_value, cache, cyc, hist>>

\* line 260: if source["name"] in _backoff_tracker
CcDelCheck(c) ==
    /\ cc[c].pc = "del_check"
    /\ cc' = [cc EXCEPT ![c].pc =
                 IF CcName(c) \in DOMAIN backoff_tracker THEN "del"
                 ELSE "parse"]
    /\ UNCHANGED <<lifeVars, dataVars, now, rt, fetchVars, reg, lc>>

\* line 261: del _backoff_tracker[name]; KeyError, raised inside the try, is
\* one of the exceptions of line 266
CcDel(c) ==
    /\ cc[c].pc = "del"
    /\ IF CcName(c) \in DOMAIN backoff_tracker
         THEN /\ backoff_tracker' = TrackerAfterSuccess(backoff_tracker,
                                                        CcName(c))
              /\ cc' = [cc EXCEPT ![c].pc = "parse"]
         ELSE /\ backoff_tracker' = backoff_tracker
              /\ cc' = [cc EXCEPT ![c].pc = "except"]
    /\ UNCHANGED <<lifeVars, dataVars, now, rt, reg, lc, last_successful_api, gp,
                   btc_price_source, btc_price, block_reward,
                   block_reward_value, cache, cyc, hist>>

\* line 264: return name, parser(data)
CcParse(c) ==
    /\ cc[c].pc = "parse"
    /\ \E raw \in Payloads :
          cc' = [cc EXCEPT ![c] =
                    IF cc[c].resp = "good"
                      THEN [@ EXCEPT !.pc = "returned",
                                     !.result = <<CcName(c), ParsePrice(raw)>>]
                      ELSE [@ EXCEPT !.pc = "except"]]
    /\ UNCHANGED <<lifeVars, dataVars, now, rt, fetchVars, reg, lc>>

\* lines 266-273: the except clauses give the source a backoff entry, and
\* the loop goes on
CcExcept(c) ==
    /\ cc[c].pc = "except"
    /\ backoff_tracker' =
          Put(backoff_tracker, CcName(c),
              backoff_time_calc(backoff_tracker, CcName(c), now))
    /\ cc' = [cc EXCEPT ![c].pc = "in_check",
                        ![c].i = @ + 1,
                        ![c].resp = "none"]
    /\ UNCHANGED <<lifeVars, dataVars, now, rt, reg, lc, last_successful_api, gp,
                   btc_price_source, btc_price, block_reward,
                   block_reward_value, cache, cyc, hist>>

\* the caller has the result, or the exception
CcReturn(c) ==
    /\ cc[c].pc \in {"returned", "raised"}
    /\ cc' = [cc EXCEPT ![c] = CallIdle]
    /\ UNCHANGED <<lifeVars, dataVars, now, rt, fetchVars, reg, lc>>

ConcNext ==
    \/ CcAdvance
    \/ \E c \in Callers :
          \/ CcCall(c) \/ CcInCheck(c) \/ CcReadEntry(c) \/ CcRequest(c)
          \/ CcSetLast(c) \/ CcDelCheck(c) \/ CcDel(c) \/ CcParse(c)
          \/ CcExcept(c) \/ CcReturn(c)

ConcSpec == ConcInit /\ [][ConcNext]_vars

\* ------------------------------ lifecycle methods, two callers at once
\* pause(), resume(), stop() and restart() of ManagedThread statement by
\* statement, called by two threads on the same worker.  _state_lock is
\* held only inside _set_state (lines 122-124): it makes each assignment of
\* _state atomic and orders nothing else.  The worker is a BtcInfoThread,
\* which inherits the four methods unchanged, as its constructor left it.
GateInit ==
    /\ kind = "btc"
    /\ update_seconds \in 0..MaxUpdateSeconds
    /\ now = 0
    /\ last_update = InitLastUpdate(now, update_seconds)
    /\ stop_event = FALSE
    /\ pause_event = TRUE
    /\ state = "RUNNING"
    /\ thread = 1
    /\ tpc = [t \in Threads |-> IF t = 1 THEN "loop" ELSE "unborn"]
    /\ sock = "none"
    /\ cpc = "idle"
    /\ cop = "init"
    /\ prior = "STOPPED"
    /\ ret = "init_raised"
    /\ first_nu = "none"
    /\ rt = RetryIdle
    /\ FetchConstructed
    /\ DataConstructed
    /\ inbox = {}
    /\ reg = RegIdle
    /\ cc = CcIdle
    /\ lc = LcIdle

\* the frame of the lifecycle variables none of the callers' steps changes
LcFrame ==
    UNCHANGED <<kind, update_seconds, last_update, now, sock, cpc, cop, prior,
                ret, first_nu, rt, fetchVars, dataVars, reg, cc>>

\* the caller leaves the method, by return or by an exception
LcLeave(c) == [lc EXCEPT ![c] = LcIdle[c]]

LcAt(c, pc) == [lc EXCEPT ![c].pc = pc]

\* Thread objects not yet created, and restart() calls that will create one
Unborn == {t \in Threads : tpc[t] = "unborn"}

PendingRestarts ==
    {c \in Callers : lc[c].op = "restart"
                       /\ lc[c].pc \notin {"restart_start", "restart_running"}}

\* pause() line 72
LcPause(c) ==
    /\ lc[c].pc = "idle"
    /\ pause_event' = FALSE
    /\ lc' = [lc EXCEPT ![c].op = "pause", ![c].pc = "pause_state"]
    /\ UNCHANGED <<stop_event, state, thread, tpc>>
    /\ LcFrame

\* pause() line 73
LcPauseSetState(c) ==
    /\ lc[c].pc = "pause_state"
    /\ state' = SetState("PAUSED")
    /\ lc' = LcLeave(c)
    /\ UNCHANGED <<stop_event, pause_event, thread, tpc>>
    /\ LcFrame

\* resume() line 77
LcResume(c) ==
    /\ lc[c].pc = "idle"
    /\ pause_event' = TRUE
    /\ lc' = [lc EXCEPT ![c].op = "resume", ![c].pc = "resume_state"]
    /\ UNCHANGED <<stop_event, state, thread, tpc>>
    /\ LcFrame

\* resume() line 78
LcResumeSetState(c) ==
    /\ lc[c].pc = "resume_state"
    /\ state' = SetState("RUNNING")
    /\ lc' = LcLeave(c)
    /\ UNCHANGED <<stop_event, pause_event, thread, tpc>>
    /\ LcFrame

\* stop() line 63, entered directly (op = "stop") or from restart() line 82.
\* A restart is only begun while a Thread identity is left for it.
LcStop(c, op) ==
    /\ lc[c].pc = "idle"
    /\ op = "restart" => Cardinality(Unborn) > Cardinality(PendingRestarts)
    /\ stop_event' = TRUE
    /\ lc' = [lc EXCEPT ![c].op = op, ![c].pc = "stop_pause"]
    /\ UNCHANGED <<pause_event, state, thread, tpc>>
    /\ LcFrame

\* stop() line 64
LcStopPause(c) ==
    /\ lc[c].pc = "stop_pause"
    /\ pause_event' = StopPauseGate
    /\ lc' = LcAt(c, "stop_join")
    /\ UNCHANGED <<stop_event, state, thread, tpc>>
    /\ LcFrame

\* stop() line 65: self.thread is read and join is called on that object;
\* join on a Thread that was created but not started raises RuntimeError
LcStopJoin(c) ==
    /\ lc[c].pc = "stop_join"
    /\ lc' = IF tpc[thread] = "created" THEN LcLeave(c)
             ELSE [lc EXCEPT ![c].pc = "stop_wait", ![c].jt = thread]
    /\ UNCHANGED <<stop_event, pause_event, state, thread, tpc>>
    /\ LcFrame

\* stop() lines 65-67: the join returns, the thread being dead or the
\* timeout having expired while it was blocked
LcStopWait(c) ==
    /\ lc[c].pc = "stop_wait"
    /\ ~Alive(lc[c].jt) \/ InBlockingCall(lc[c].jt)
    /\ lc' = LcAt(c, "stop_state")
    /\ UNCHANGED <<stop_event, pause_event, state, thread, tpc>>
    /\ LcFrame

\* stop() line 68
LcStopSetState(c) ==
    /\ lc[c].pc = "stop_state"
    /\ state' = SetState("STOPPED")
    /\ lc' = IF lc[c].op = "stop" THEN LcLeave(c) ELSE LcAt(c, "restart_alive")
    /\ UNCHANGED <<stop_event, pause_event, thread, tpc>>
    /\ LcFrame

\* restart() line 83: if self.thread.is_alive()
LcRestartAlive(c) ==
    /\ lc[c].pc = "restart_alive"
    /\ lc' = LcAt(c, IF is_alive THEN "restart_join" ELSE "restart_clear")
    /\ UNCHANGED <<stop_event, pause_event, state, thread, tpc>>
    /\ LcFrame

\* restart() line 85: self.thread is read again and joined
LcRestartJoin(c) ==
    /\ lc[c].pc = "restart_join"
    /\ lc' = IF tpc[thread] = "created" THEN LcLeave(c)
             ELSE [lc EXCEPT ![c].pc = "restart_wait", ![c].jt = thread]
    /\ UNCHANGED <<stop_event, pause_event, state, thread, tpc>>
    /\ LcFrame

\* restart() line 85: the join returns
LcRestartWait(c) ==
    /\ lc[c].pc = "restart_wait"
    /\ ~Alive(lc[c].jt) \/ InBlockingCall(lc[c].jt)
    /\ lc' = LcAt(c, "restart_clear")
    /\ UNCHANGED <<stop_event, pause_event, state, thread, tpc>>
    /\ LcFrame

\* restart() line 86
LcRestartClear(c) ==
    /\ lc[c].pc = "restart_clear"
    /\ stop_event' = RestartStopEvent
    /\ lc' = LcAt(c, "restart_state")
    /\ UNCHANGED <<pause_event, state, thread, tpc>>
    /\ LcFrame

\* restart() line 87
LcRestartSetState(c) ==
    /\ lc[c].pc = "restart_state"
    /\ state' = SetState("RESTARTING")
    /\ lc' = LcAt(c, "restart_new")
    /\ UNCHANGED <<stop_event, pause_event, thread, tpc>>
    /\ LcFrame

\* restart() line 88: self.thread = threading.Thread(...)
LcRestartNew(c) ==
    /\ lc[c].pc = "restart_new"
    /\ \E t \in Unborn :
          /\ \A u \in Unborn : t <= u
          /\ thread' = t
          /\ tpc' = [tpc EXCEPT ![t] = "created"]
    /\ lc' = LcAt(c, "restart_start")
    /\ UNCHANGED <<stop_event, pause_event, state>>
    /\ LcFrame

\* restart() line 89: self.thread.start() on the object self.thread names
\* now; starting a Thread a second time raises RuntimeError
LcRestartStart(c) ==
    /\ lc[c].pc = "restart_start"
    /\ IF tpc[thread] = "created"
         THEN /\ tpc' = [tpc EXCEPT ![thread] = "loop"]
              /\ lc' = LcAt(c, "restart_running")
         ELSE /\ tpc' = tpc
              /\ lc' = LcLeave(c)
    /\ UNCHANGED <<stop_event, pause_event, state, thread>>
    /\ LcFrame

\* restart() line 90
LcRestartRunning(c) ==
    /\ lc[c].pc = "restart_running"
    /\ state' = SetState("RUNNING")
    /\ lc' = LcLeave(c)
    /\ UNCHANGED <<stop_event, pause_event, thread, tpc>>
    /\ LcFrame

LcStep(c) ==
    \/ LcPause(c) \/ LcPauseSetState(c) \/ LcResume(c) \/ LcResumeSetState(c)
    \/ LcStop(c, "stop") \/ LcStop(c, "restart")
    \/ LcStopPause(c) \/ LcStopJoin(c) \/ LcStopWait(c) \/ LcStopSetState(c)
    \/ LcRestartAlive(c) \/ LcRestartJoin(c) \/ LcRestartWait(c)
    \/ LcRestartClear(c) \/ LcRestartSetState(c) \/ LcRestartNew(c)
    \/ LcRestartStart(c) \/ LcRestartRunning(c)

GateNext ==
    \/ \E c \in Callers : LcStep(c)
    \/ \E t \in Threads : RunLoop(t) \/ BtcCycle(t)

GateSpec == GateInit /\ [][GateNext]_vars

\* ----------------------------------------------- retry_operation (calls)
\* A call retry_operation(op, retries=arg) on a worker whose max_retries is
\* m, with an operation that behaves as the script says.
RetryInit ==
    /\ kind = "udp"
    /\ update_seconds = 0
    /\ now = 0
    /\ last_update = InitLastUpdate(now, update_seconds)
    /\ stop_event = FALSE
    /\ pause_event = TRUE
    /\ state = "RUNNING"
    /\ thread = 1
    /\ tpc = [t \in Threads |-> IF t = 1 THEN "loop" ELSE "unborn"]
    /\ sock = "open"
    /\ cpc = "idle"
    /\ cop = "init"
    /\ prior = "STOPPED"
    /\ ret = "init"
    /\ first_nu = "none"
    /\ FetchConstructed
    /\ DataConstructed
    /\ inbox = {}
    /\ reg = RegIdle
    /\ cc = CcIdle
    /\ lc = LcIdle
    /\ \E a \in RetriesArgs, m \in 0..MaxRetries, sc \in OpScripts :
          rt = [RetryIdle EXCEPT !.pc = "call", !.arg = a,
                                 !.max_retries = m, !.script = sc]

\* retry_operation lines 108-110
RetryEnter ==
    /\ rt.pc = "call"
    /\ rt' = [rt EXCEPT !.pc = "loop",
                        !.retries = EffectiveRetries(rt.arg, rt.max_retries),
                        !.attempt = 0]
    /\ UNCHANGED <<lifeVars, dataVars, clsVars, now, fetchVars>>

\* retry_operation lines 111-119: one evaluation of the loop condition and,
\* if it holds, one invocation of the operation
RetryAttempt ==
    /\ rt.pc = "loop"
    /\ IF RetryContinues(rt.attempt, rt.retries)
         THEN LET e == rt.script[rt.calls + 1] IN
              IF e = "ok"
                THEN rt' = [rt EXCEPT !.calls = @ + 1, !.pc = "done",
                                      !.outcome = "returned"]
                ELSE IF Retryable(e)
                  THEN rt' = [rt EXCEPT !.calls = @ + 1, !.attempt = @ + 1]
                  ELSE rt' = [rt EXCEPT !.calls = @ + 1, !.pc = "done",
                                        !.outcome = "raised_other"]
         ELSE rt' = [rt EXCEPT !.pc = "done", !.outcome = "ThreadError",
                               !.reported = rt.retries]
    /\ UNCHANGED <<lifeVars, dataVars, clsVars, now, fetchVars>>

RetryNext == RetryEnter \/ RetryAttempt

RetrySpec == RetryInit /\ [][RetryNext]_vars

\* ------------------------------------------- the fetch cycle (BtcInfo)
\* A BtcInfoThread holding the fields and the cache of lines 155-164, whose
\* thread runs one get_btc_block_reward_value() cycle after another while
\* time passes.  The constructor as written raises at line 153 before it
\* assigns them (BtcInitState, C25); the cycle is examined here on the object
\* those lines describe, so that its own logic is checked and not only the
\* constructor's failure.
FetchInit ==
    /\ kind = "btc"
    /\ update_seconds = 0
    /\ now = StartTime
    /\ last_update = InitLastUpdate(now, update_seconds)
    /\ stop_event = FALSE
    /\ pause_event = TRUE
    /\ state = "RUNNING"
    /\ thread = 1
    /\ tpc = [t \in Threads |-> IF t = 1 THEN "update" ELSE "unborn"]
    /\ sock = "none"
    /\ cpc = "idle"
    /\ cop = "init"
    /\ prior = "STOPPED"
    /\ ret = "init"
    /\ first_nu = "T"
    /\ rt = RetryIdle
    /\ FetchConstructed
    /\ DataConstructed
    /\ inbox = {}
    /\ reg = RegIdle
    /\ cc = CcIdle
    /\ lc = LcIdle

\* time passes, between two cycles or while a request is outstanding: the
\* next clock reading is a later instant
Advance ==
    /\ gp.pc \in {"idle", "request"}
    /\ \E t \in TimePoints : t > now /\ now' = t
    /\ UNCHANGED <<lifeVars, dataVars, clsVars, rt, fetchVars>>

\* get_btc_block_reward_value line 182 calls get_btc_price; line 245 fixes
\* the try-order for the call
CycleStart ==
    /\ gp.pc = "idle"
    /\ gp' = [GpIdle EXCEPT !.pc = "check",
                            !.sources = SortedSources(last_successful_api),
                            !.i = 1,
                            !.tracker0 = backoff_tracker,
                            !.t0 = now]
    /\ cyc' = [CycIdle EXCEPT !.outcome = "running", !.cache0 = cache]
    /\ UNCHANGED <<lifeVars, dataVars, clsVars, now, rt, backoff_tracker, last_successful_api,
                   btc_price_source, btc_price, block_reward,
                   block_reward_value, cache, hist>>

\* get_btc_price lines 246-251 and 275: the next source of the loop is
\* skipped because of its backoff entry, or is about to be requested; after
\* the last source the call returns ('', 0.0)
PriceCheck ==
    /\ gp.pc = "check"
    /\ IF gp.i > Len(gp.sources)
         THEN gp' = [gp EXCEPT !.pc = "returned", !.result = <<"", 0>>]
         ELSE LET name == gp.sources[gp.i] IN
              IF InBackoff(backoff_tracker, name, now)
                THEN gp' = [gp EXCEPT
                              !.i = @ + 1,
                              !.log = Append(@, [name |-> name, act |-> "skip",
                                                 t |-> now, raw |-> 0])]
                ELSE gp' = [gp EXCEPT !.pc = "request", !.tcheck = now,
                                      !.requested = @ \cup {name}]
    /\ UNCHANGED <<lifeVars, dataVars, clsVars, now, rt, backoff_tracker, last_successful_api,
                   btc_price_source, btc_price, block_reward,
                   block_reward_value, cache, cyc, hist>>

\* get_btc_price lines 252-273: the request to the source ends.
\*   "fail"       requests.get / raise_for_status / response.json() raised
\*   "parse_fail" the response was fetched (lines 259-261 have run) and the
\*                parser raised at line 264
\*   a payload    the response was fetched and parsed
PriceRequest ==
    /\ gp.pc = "request"
    /\ LET name == gp.sources[gp.i] IN
       \E outcome \in {"fail", "parse_fail", "ok"}, raw \in Payloads :
          LET after == IF outcome = "fail" THEN backoff_tracker
                       ELSE TrackerAfterSuccess(backoff_tracker, name)
              failed == outcome # "ok"
          IN
          /\ last_successful_api' =
                IF outcome = "fail" THEN last_successful_api ELSE name
          /\ backoff_tracker' =
                IF failed
                  THEN Put(after, name, backoff_time_calc(after, name, now))
                  ELSE after
          /\ gp' = IF failed
                     THEN [gp EXCEPT
                             !.pc = "check", !.i = @ + 1,
                             !.log = Append(@, [name |-> name, act |-> "fail",
                                                t |-> gp.tcheck, raw |-> 0])]
                     ELSE [gp EXCEPT
                             !.pc = "returned",
                             !.result = <<name, ParsePrice(raw)>>,
                             !.log = Append(@, [name |-> name, act |-> "ok",
                                                t |-> gp.tcheck, raw |-> raw])]
          /\ hist' = IF failed
                       THEN [hist EXCEPT !.nfail[name] = @ + 1,
                                         !.last_attempt[name] = "fail"]
                       ELSE [hist EXCEPT !.nfail[name] = 0,
                                         !.last_attempt[name] = "ok",
                                         !.last_ok = name]
    /\ UNCHANGED <<lifeVars, dataVars, clsVars, now, rt, btc_price_source, btc_price,
                   block_reward, block_reward_value, cache, cyc>>

\* get_btc_block_reward_value lines 182-212 after get_btc_price returned:
\* the pair is assigned, the block height is requested, and either the
\* reward is computed and cached or the tuple is restored from the cache.
\*   "request_error"  requests.get / raise_for_status raised
\*   "bad_text"       int(text) raised ValueError
\*   a height         the request answered with that integer
CycleFinish ==
    /\ gp.pc = "returned"
    /\ \E answer \in {"request_error", "bad_text", "height"}, h \in Heights :
          LET assigned == [Exposed EXCEPT !.btc_price_source = gp.result[1],
                                          !.btc_price = gp.result[2]]
              reward == BlockReward(h)
              fresh == [assigned EXCEPT
                          !.block_reward = reward,
                          !.block_reward_value =
                               RewardValue(reward, assigned.btc_price)]
              final == IF answer = "height" THEN fresh
                       ELSE restore_from_cache(cache, assigned)
          IN
          /\ btc_price_source' = final.btc_price_source
          /\ btc_price' = final.btc_price
          /\ block_reward' = final.block_reward
          /\ block_reward_value' = final.block_reward_value
          /\ cache' = IF answer = "height" THEN fresh ELSE cache
          /\ cyc' = [cyc EXCEPT
                       !.outcome = IF answer = "height" THEN "ok" ELSE "failed",
                       !.fetched = gp.result,
                       !.height = IF answer = "height" THEN h ELSE 0]
    /\ gp' = [gp EXCEPT !.pc = "cycle_done"]
    /\ UNCHANGED <<lifeVars, dataVars, clsVars, now, rt, backoff_tracker, last_successful_api,
                   hist>>

\* get_btc_block_reward_value line 214: the cycle returns to the run loop
CycleReturn ==
    /\ gp.pc = "cycle_done"
    /\ gp' = GpIdle
    /\ cyc' = CycIdle
    /\ UNCHANGED <<lifeVars, dataVars, clsVars, now, rt, backoff_tracker, last_successful_api,
                   btc_price_source, btc_price, block_reward,
                   block_reward_value, cache, hist>>

\* get_btc_price called on its own (it is a static method): line 245
GetPriceCall ==
    /\ gp.pc = "idle"
    /\ gp' = [GpIdle EXCEPT !.pc = "check",
                            !.sources = SortedSources(last_successful_api),
                            !.i = 1,
                            !.tracker0 = backoff_tracker,
                            !.t0 = now]
    /\ UNCHANGED <<lifeVars, dataVars, clsVars, now, rt, backoff_tracker, last_successful_api,
                   btc_price_source, btc_price, block_reward,
                   block_reward_value, cache, cyc, hist>>

\* the caller of get_btc_price has its result
GetPriceReturn ==
    /\ gp.pc = "returned"
    /\ gp' = GpIdle
    /\ UNCHANGED <<lifeVars, dataVars, clsVars, now, rt, backoff_tracker, last_successful_api,
                   btc_price_source, btc_price, block_reward,
                   block_reward_value, cache, cyc, hist>>

\* calls of get_btc_price one after another while time passes
PriceNext ==
    Advance \/ GetPriceCall \/ PriceCheck \/ PriceRequest \/ GetPriceReturn

PriceSpec == FetchInit /\ [][PriceNext]_vars

\* fetch cycles one after another, all within one clock reading (a source
\* that failed stays backed off; PriceSpec is where time passes)
FetchNext ==
    CycleStart \/ PriceCheck \/ PriceRequest \/ CycleFinish \/ CycleReturn

FetchSpec == FetchInit /\ [][FetchNext]_vars

\* ------------------------------------------------------------ properties
Idle == cpc = "idle"

\* a step in which thread t enters the update routine
\* (get_btc_block_reward_value / receive_data)
InvokesUpdate(t) == tpc[t] = "loop" /\ tpc'[t] = "update"

\* C1: in every reachable state at most one thread running run() of the
\* worker is alive; restart() never starts the new thread while the previous
\* one is still alive.
C1_AtMostOneContext == Cardinality(AliveThreads) <= 1

\* C2: after stop() returns, whatever the prior state and whether or not the
\* thread exited within stop_timeout, the state is STOPPED, should_stop() is
\* true and is_paused() is false.
C2_StopPost ==
    (Idle /\ ret = "stop") =>
        (state = "STOPPED" /\ ShouldStop /\ ~is_paused)

C2_Witness ==
    Idle /\ ret = "stop" /\ prior = "PAUSED" /\ is_alive

\* C3: after restart() returns the state is RUNNING, should_stop() is false,
\* the pause gate is open and exactly one execution context, the newly
\* started one, is running.
C3_RestartPost ==
    (Idle /\ ret = "restart") =>
        /\ state = "RUNNING"
        /\ ~ShouldStop
        /\ ~is_paused
        /\ AliveThreads = {thread}

\* C4: pause() from any state leaves PAUSED with the gate closed, resume()
\* from any state leaves RUNNING with the gate open, and a pause() after a
\* pause() (a resume() after a resume()) changes nothing of the state, the
\* pause gate or the cancellation signal.
C4_PauseResume ==
    /\ []((Idle /\ ret = "pause") => (state = "PAUSED" /\ is_paused))
    /\ []((Idle /\ ret = "resume") => (state = "RUNNING" /\ ~is_paused))
    /\ [][(\/ ret = "pause" /\ cop' = "pause"
           \/ ret = "resume" /\ cop' = "resume")
          => UNCHANGED <<state, pause_event, stop_event>>]_vars

C4_Witness ==
    Idle /\ ret = "pause" /\ prior = "PAUSED" /\ state = "PAUSED"

\* C5: while the worker is paused (pause() has returned and no other call
\* has been made since) no thread enters the update routine.
C5_NoUpdateWhilePaused ==
    [][\A t \in Threads :
          InvokesUpdate(t) => ~(Idle /\ ret = "pause" /\ is_paused)]_vars

\* C6: STOPPED is left only by restart(), and only to RESTARTING; pause()
\* and resume() never change the state away from STOPPED.
C6_StoppedTerminal ==
    [][(state = "STOPPED" /\ state' # "STOPPED")
          => (cop = "restart" /\ state' = "RESTARTING")]_vars

\* C7: when an exception escapes run() the worker's state is forced to
\* STOPPED; the state is never RUNNING while the current thread is dead of
\* an exception.
C7_CrashForcesStopped ==
    /\ [][\A t \in Threads :
             (tpc[t] # "crashed" /\ tpc'[t] = "crashed")
                => state' = "STOPPED"]_vars
    /\ [](tpc[thread] = "crashed" => state # "RUNNING")

\* C8: once the cancellation signal is set, every execution context
\* eventually exits, unless a restart() clears the signal again.
C8_StopTerminates ==
    stop_event ~> (AliveThreads = {} \/ ~stop_event)

C8_Witness ==
    /\ Idle /\ ret = "stop" /\ prior = "PAUSED"
    /\ AliveThreads = {}
    /\ tpc[thread] = "exited"

\* C9: needs_update() returning True records the current time as
\* last_update, so that the update routine runs at most once per interval.
C9_NeedsUpdateRecords ==
    [][\A t \in Threads : InvokesUpdate(t) => last_update' = now]_vars

\* C10: for every update_seconds >= 0 the first needs_update() call after
\* construction returns True: until that call last_update lies more than
\* update_seconds in the past.
C10_FirstCheckDue ==
    /\ first_nu # "F"
    /\ first_nu = "none" => (now - last_update) > update_seconds

C10_Witness ==
    first_nu = "T" /\ now = 0 /\ update_seconds = MaxUpdateSeconds

\* the number of leading invocations on which the operation raises one of
\* the two retryable errors
RECURSIVE LeadFails(_, _)
LeadFails(sc, i) ==
    IF i > Len(sc) THEN 0
    ELSE IF sc[i] \in {"UpdateFailedError", "OperationFailedError"}
           THEN 1 + LeadFails(sc, i + 1)
           ELSE 0

\* C11: retry_operation(op, retries=r), r >= 1, with an op that raises a
\* retryable error on its first k calls and then succeeds: k < r gives
\* exactly k+1 invocations and a normal return; k >= r gives exactly r
\* invocations and ThreadError reporting r.
C11_RetryCount ==
    LET k == LeadFails(rt.script, 1)
        r == rt.arg[1]
    IN (/\ rt.pc = "done"
        /\ rt.arg # <<>>
        /\ rt.arg[1] >= 1
        /\ (k = Len(rt.script) \/ rt.script[k + 1] = "ok"))
       => IF k < r
            THEN rt.calls = k + 1 /\ rt.outcome = "returned"
            ELSE /\ rt.calls = r
                 /\ rt.outcome = "ThreadError"
                 /\ rt.reported = r

C11_Witness ==
    /\ rt.pc = "done"
    /\ rt.arg = <<MaxRetries>>
    /\ LeadFails(rt.script, 1) = MaxRetries - 1
    /\ rt.calls = MaxRetries
    /\ rt.outcome = "returned"

\* C12: an exception of any other kind raised by the operation leaves
\* retry_operation at once: that invocation is the last one and the outcome
\* is that exception, not ThreadError.
C12_OtherPropagates ==
    rt.pc = "done" =>
        /\ \A j \in 1..rt.calls :
              rt.script[j] = "OtherError"
                 => (j = rt.calls /\ rt.outcome = "raised_other")
        /\ rt.outcome = "raised_other"
              => (rt.calls >= 1 /\ rt.script[rt.calls] = "OtherError")

C12_Witness ==
    /\ rt.pc = "done"
    /\ rt.outcome = "raised_other"
    /\ rt.calls = 2
    /\ rt.script[1] = "UpdateFailedError"

\* get_btc_price has returned and its caller has not yet taken the result
Returned == gp.pc = "returned"

\* the source was requested during the call
Attempted(n) ==
    \E i \in 1..Len(gp.log) : gp.log[i].name = n /\ gp.log[i].act # "skip"

\* the source had a backoff entry at the start of the call and the clock
\* reading t is before its eligible-time
ActiveBackoff(n, t) == n \in DOMAIN gp.tracker0 /\ t < gp.tracker0[n]

\* C13: get_btc_price returns the name and the parsed value (the price text
\* rounded to the nearest cent) of the first source in the try-order of the
\* call that is not in active backoff and whose fetch and parse succeed; it
\* returns ('', 0.0) iff every source failed or was in backoff; a source in
\* backoff is not requested.
C13_FirstSuccessful ==
    Returned =>
        LET L == gp.log
            last == Len(L)
        IN /\ last <= Len(gp.sources)
           /\ \A i \in 1..last :
                 /\ L[i].name = gp.sources[i]
                 /\ L[i].act = "skip" <=> ActiveBackoff(L[i].name, L[i].t)
                 /\ L[i].act = "skip" => L[i].name \notin gp.requested
                 /\ L[i].act = "ok" => i = last
           /\ IF last > 0 /\ L[last].act = "ok"
                THEN /\ gp.result[1] = L[last].name
                     /\ (10 * gp.result[2] - L[last].raw) \in -5..5
                ELSE /\ gp.result = <<"", 0>>
                     /\ last = Len(gp.sources)

C13_Witness ==
    /\ Returned
    /\ Len(gp.log) = NumSources
    /\ gp.log[1].act = "skip"
    /\ gp.log[2].act = "fail"
    /\ gp.log[NumSources].act = "ok"
    /\ gp.result[1] = gp.log[NumSources].name

\* the try-order the claim describes, for a most recently successful source
ClaimedOrder(last) ==
    IF last = "None" THEN BTC_PRICE_API_SOURCES
    ELSE <<last>> \o SelectSeq(BTC_PRICE_API_SOURCES, LAMBDA n : n # last)

\* C14: the try-order of every call is the most recently successful source
\* (the last one whose fetch and parse succeeded), if any, followed by the
\* other sources in configured order.
C14_TryOrder ==
    (gp.pc = "check" /\ gp.i = 1 /\ gp.log = <<>>)
        => gp.sources = ClaimedOrder(hist.last_ok)

\* C15 (as claimed): a source with a backoff entry is skipped, unrequested
\* and its entry unchanged, while the clock is before its eligible-time, and
\* every call made at or after the eligible-time attempts it.
C15_AttemptedOnceEligible ==
    Returned =>
        \A n \in DOMAIN gp.tracker0 :
           /\ \A i \in 1..Len(gp.log) :
                 (gp.log[i].name = n /\ gp.log[i].t < gp.tracker0[n])
                    => /\ gp.log[i].act = "skip"
                       /\ n \notin gp.requested
                       /\ n \in DOMAIN backoff_tracker
                       /\ backoff_tracker[n] = gp.tracker0[n]
           /\ gp.t0 >= gp.tracker0[n] => Attempted(n)

\* C15 (amended): a source with a backoff entry is skipped, unrequested and
\* its entry unchanged, when the loop reaches it before its eligible-time,
\* and is requested when the loop reaches it at or after the eligible-time
\* (the loop reaches it when no source earlier in the try-order succeeds).
C15_EligibleWhenReached ==
    Returned =>
        \A n \in DOMAIN gp.tracker0 :
           \A i \in 1..Len(gp.log) :
              gp.log[i].name = n =>
                 IF gp.log[i].t < gp.tracker0[n]
                   THEN /\ gp.log[i].act = "skip"
                        /\ n \notin gp.requested
                        /\ n \in DOMAIN backoff_tracker
                        /\ backoff_tracker[n] = gp.tracker0[n]
                   ELSE gp.log[i].act # "skip" /\ n \in gp.requested

C15_Witness ==
    /\ Returned
    /\ \E i, j \in 1..Len(gp.log) :
          /\ gp.log[i].name \in DOMAIN gp.tracker0
          /\ gp.log[i].t = gp.tracker0[gp.log[i].name]
          /\ gp.log[i].act # "skip"
          /\ gp.log[j].name \in DOMAIN gp.tracker0
          /\ gp.log[j].t < gp.tracker0[gp.log[j].name]
          /\ gp.log[j].act = "skip"

\* C16: the n-th consecutive failure of a source sets its eligible-time to
\* the failure time plus min(2^n, MAX_BACKOFF) seconds.
C16_BackoffDoubling ==
    [][\A n \in Names :
          (/\ n \in DOMAIN backoff_tracker'
           /\ (n \in DOMAIN backoff_tracker
                  => backoff_tracker'[n] # backoff_tracker[n]))
             => backoff_tracker'[n] =
                   now + Min(Pow2(hist'.nfail[n]), MAX_BACKOFF)]_vars

\* C17: a source has an entry in _backoff_tracker iff the last attempt made
\* on it failed; so after a call in which every source was attempted and
\* failed every source has one.
C17_EntryIffLastFailed ==
    \A n \in Names :
       n \in DOMAIN backoff_tracker <=> hist.last_attempt[n] = "fail"

C17_Witness ==
    /\ Returned
    /\ Len(gp.log) > 0
    /\ LET e == gp.log[Len(gp.log)] IN
          /\ e.act = "ok"
          /\ e.name \in DOMAIN gp.tracker0
          /\ e.name \notin DOMAIN backoff_tracker
    /\ \E n \in Names : n \in DOMAIN backoff_tracker

\* get_btc_block_reward_value has run to its last line
CycleDone == gp.pc = "cycle_done"

RewardLeq(a, b) == a.num * Pow2(b.exp) <= b.num * Pow2(a.exp)

Processes(t) ==
    tpc[t] = "recvfrom" /\ tpc'[t] # "recvfrom" /\ rx' # NoDatagram

\* the datagram does not decode to a record with a non-empty "ip"
Discardable(d) ==
    d.kind # "object" \/ "ip" \notin DOMAIN d.obj \/ d.obj["ip"] = ""

\* C21: process_data on a payload that does not decode (not UTF-8, empty,
\* not JSON, JSON that is not an object) or that decodes to a record without
\* a non-empty "ip" leaves nmminer_map unchanged and raises nothing: the
\* thread is back at the head of the run loop.
C21_InvalidPacketDiscarded ==
    [][\A t \in Threads :
          (Processes(t) /\ Discardable(rx'))
             => (nmminer_map' = nmminer_map /\ tpc'[t] = "loop")]_vars

C21_Witness ==
    /\ rx = Object([HashRate |-> 1])
    /\ DOMAIN nmminer_map = MinerIps
    /\ tpc[1] = "loop"

\* C22: process_data on a valid record with identifier X sets nmminer_map[X]
\* to the received fields plus UpdateTime (the local time), nothing else, and
\* leaves every other entry as it was; at any time nmminer_map[X] is the
\* last valid record received for X.
C22_ValidRecordReplaces ==
    /\ [][\A t \in Threads :
             (Processes(t) /\ IsValid(rx'))
                => LET X == rx'.obj["ip"] IN
                   /\ DOMAIN nmminer_map' = DOMAIN nmminer_map \cup {X}
                   /\ DOMAIN nmminer_map'[X] =
                         DOMAIN rx'.obj \cup {"UpdateTime"}
                   /\ \A f \in DOMAIN rx'.obj \ {"UpdateTime"} :
                         nmminer_map'[X][f] = rx'.obj[f]
                   /\ nmminer_map'[X]["UpdateTime"] = strftime(now)
                   /\ \A y \in DOMAIN nmminer_map \ {X} :
                         nmminer_map'[y] = nmminer_map[y]]_vars
    /\ [](\A X \in MinerIps :
             IF seen[X] = <<>> THEN X \notin DOMAIN nmminer_map
             ELSE /\ X \in DOMAIN nmminer_map
                  /\ nmminer_map[X] =
                        Put(seen[X][1], "UpdateTime", strftime(seen[X][2])))

C22_Witness ==
    /\ rx = Object([ip |-> "X", Share |-> 2])
    /\ DOMAIN nmminer_map = MinerIps
    /\ DOMAIN nmminer_map["X"] = {"ip", "Share", "UpdateTime"}
    /\ nmminer_map["X"]["UpdateTime"] = strftime(1)
    /\ nmminer_map["Y"]["UpdateTime"] = strftime(0)

\* C23: UdpThread.stop() performs the generic stop and then releases the
\* socket: once a stop() call has ended sock is None and the state is
\* STOPPED, and a receive_data() tick that begins after it goes back to the
\* loop without select or recvfrom.
C23_StopReleasesSocket ==
    /\ []((kind = "udp" /\ Idle /\ cop = "stop")
             => (sock = "none" /\ state = "STOPPED"))
    /\ [][\A t \in Threads :
             (kind = "udp" /\ Idle /\ cop = "stop" /\ tpc[t] = "update"
                 /\ tpc'[t] # "update")
                => tpc'[t] = "loop"]_vars

\* C25: constructing a BtcInfoThread completes without error, and while no
\* lifecycle operation has been called since, the state is RUNNING and
\* exactly one execution context is alive.
C25_ConstructionCompletes ==
    (kind = "btc" /\ cop = "init" /\ Idle)
        => /\ ret = "init"
           /\ state = "RUNNING"
           /\ Cardinality(AliveThreads) = 1

\* C29: during restart() the state moves only along prior state -> STOPPED
\* -> RESTARTING -> RUNNING, the new thread is started with the
\* cancellation signal already cleared and the state RESTARTING, and a
\* restart() that has returned leaves RUNNING.
C29_RestartSequence ==
    /\ [][(cop' = "restart" /\ state' # state)
             => <<state, state'>> \in {<<prior', "STOPPED">>,
                                       <<"STOPPED", "RESTARTING">>,
                                       <<"RESTARTING", "RUNNING">>}]_vars
    /\ [][thread' # thread
             => (~ShouldStop /\ ~ShouldStop' /\ state = "RESTARTING"
                 /\ tpc'[thread'] = "loop")]_vars
    /\ []((Idle /\ ret = "restart") => state = "RUNNING")

C29_Witness ==
    /\ Idle /\ ret = "restart" /\ prior = "PAUSED"
    /\ state = "RUNNING"
    /\ thread = 2
    /\ tpc[thread] = "update"

\* C30: a receive_data() tick that overlaps the teardown of stop() never
\* has select or recvfrom on a socket that was shut down, closed or set to
\* None.
C30_TickSafeDuringTeardown ==
    \A t \in Threads : tpc[t] \in {"select", "recvfrom"} => sock = "open"

\* a step that is the class-level call op on class cls
ClassCall(op, cls) ==
    /\ reg'.last.n = reg.last.n + 1
    /\ reg'.last.op = op
    /\ reg'.last.cls = cls

\* the number of live threads of an object
LiveThreads(o) == o.orphans + (IF o.cur = "alive" THEN 1 ELSE 0)

\* C24: while cls._instance is set (no reset_instance() since the first
\* construction), a construction of BtcInfoThread returns that instance and
\* changes nothing of it: no initialisation is run again, no thread is
\* started, the interval and the state stay.
C24_BtcSingleton ==
    [][(ClassCall("construct", "btc") /\ reg.instance # 0)
          => /\ reg'.last.obj = reg.instance
             /\ ~reg'.last.raised
             /\ reg'.objs = reg.objs]_vars

\* C26: reset_instance() stops the instance before discarding it: when it
\* has returned the old instance's cancellation signal is set, its state is
\* STOPPED and none of its threads is alive, so none runs beside the thread
\* of the next instance.
C26_ResetStopsInstance ==
    [][(ClassCall("reset", "btc") /\ reg.instance # 0)
          => LET o == reg'.objs[reg.instance] IN
             /\ reg'.instance = 0
             /\ o.stop_event
             /\ o.state = "STOPPED"
             /\ LiveThreads(o) = 0]_vars

\* C28: UdpThread is a singleton: all constructions without a
\* reset_instance() in between yield one instance, so at most one listener
\* thread and one bound socket exist, and reset_instance() succeeds.
C28_UdpSingleton ==
    LET udps == {i \in 1..Len(reg.objs) : reg.objs[i].cls = "udp"} IN
    /\ Cardinality(udps) <= 1
    /\ Cardinality({i \in udps : LiveThreads(reg.objs[i]) > 0}) <= 1
    /\ Cardinality({i \in udps : reg.objs[i].sock = "bound"}) <= 1
    /\ (reg.last.op = "reset" /\ reg.last.cls = "udp") => ~reg.last.raised

\* C27: two concurrent get_btc_price() calls behave as if run one after the
\* other.  Stated here by two consequences that hold of every serial order:
\* no call raises, and no call reaches the except clauses (which give the
\* source a backoff entry) for a source that answered it with a payload the
\* parser accepts.
C27_CallsSerializable ==
    \A c \in Callers :
       /\ cc[c].pc # "raised"
       /\ cc[c].pc = "except" => cc[c].resp # "good"

\* C32: a source is the preferred source only by a call in which both its
\* fetch and its parse succeeded: _last_successful_api is always the source
\* of the last call that returned a price, and a source whose parser raised
\* does not become preferred.
C32_PreferredOnlyAfterParse == last_successful_api = hist.last_ok

C37_ExplicitRetriesBound ==
    rt.arg # <<>> =>
        /\ rt.calls <= rt.arg[1]
        /\ rt.pc \in {"loop", "done"} => rt.retries = rt.arg[1]

\* the UdpThread constructor has returned normally and no call is in progress
UdpQuiescent ==
    kind = "udp" /\ cpc = "idle" /\ ret \notin {"none", "init_raised"}

\* C34: whenever a fully constructed UdpThread is in state RUNNING its socket
\* handle is non-empty and bound; in particular after restart() the listener
\* still owns a usable socket.  Checked in the case the claim names, a
\* restart() that has returned with the state RUNNING (the state RUNNING
\* reached by resume() after stop() is C6's subject).
C34_RunningOwnsSocket ==
    (UdpQuiescent /\ state = "RUNNING" /\ ret = "restart") => sock = "open"

\* a BtcInfoThread whose constructor has not assigned the cache (lines
\* 159-164): the constructor is still running, or it has raised at line 153
BtcPartial == kind = "btc" /\ (cpc = "btc_state" \/ ret = "init_raised")

\* C35: the execution context never runs an update cycle against a partially
\* constructed worker: while the cache does not exist no thread is inside
\* get_btc_block_reward_value(), and none has been killed by it.
C35_NoCycleOnPartialWorker ==
    BtcPartial => \A t \in Threads : tpc[t] \notin {"update", "crashed"}

\* C36: if binding the socket fails during UdpThread construction, the
\* constructor raises and no execution context of that worker is left
\* running.
C36_BindFailureStopsThread ==
    (kind = "udp" /\ cpc = "ctor_failed") => AliveThreads = {}

\* no caller is inside a lifecycle method
Quiescent == \A c \in Callers : lc[c].pc = "idle"

\* C31: at every quiescent point, for any interleaving of pause(), resume(),
\* stop() and restart() calls issued by concurrent callers, is_paused() is
\* true iff get_state() is PAUSED.
C31_GateMatchesState == Quiescent => (is_paused <=> state = "PAUSED")
====
